---- MODULE Spec2Model ----
(***************************************************************************)
(* docker-orchestrator: the express facade over the container engine       *)
(* (src/src/index.ts and the later copy of it in src/src/temp.js) and the  *)
(* throwaway-container runner runCodeInContainer (src/src/temp.js).        *)
(*                                                                         *)
(* A handler is an async function: it runs from one await to the next      *)
(* without interruption.  Every action below is one such continuation: it  *)
(* consumes the reply of the call the handler is suspended on and runs the *)
(* code up to the next call it issues (or to the response).  The engine is *)
(* an external daemon: the reply of a call (success or error, and the      *)
(* status an inspect reports) is an input of the action.                   *)
(***************************************************************************)
EXTENDS Integers, Sequences, FiniteSets

\* ------------------------------------------------------------------ values

\* let retries = 5
MaxRetries == 5

\* The most 'data' events an exec stream delivers before it ends.
MaxChunks == 2

\* The statuses the engine reports; "frozen" stands for a value the switch
\* of the deletion handler has no case for.
Statuses ==
    {"running", "paused", "restarting", "exited", "created", "dead", "removing", "frozen"}

\* The routes of the two server files.
Kinds ==
    {"root", "list", "create", "run", "run_id", "inspect", "delete"}

\* The two files that define the server.
Apps ==
    {"index.ts", "temp.js"}

\* Request slots.  Requests share no in-process state, so the specification
\* of the facade follows one request.
Reqs ==
    {"r1", "r2"}

\* The calls of the engine client that go to the daemon.
EngineOps ==
    {"listContainers", "pull", "followProgress", "createContainer", "start",
     "inspect", "run", "exec", "execStart", "execInspect", "stop", "unpause", "remove"}

\* ------------------------------------------------------------------- state

VARIABLES
    kind,       \* kind[r]: the route of request r, "none" before it arrives
    app,        \* app[r]: the server file that serves r
    bodyOk,     \* bodyOk[r]: the request body has the fields the handler reads
    pc,         \* pc[r]: the await the handler of r is suspended on
    log,        \* log[r]: the calls the handler issued, in order, with their replies
    data,       \* data[r]: data.State.Status of the deletion's first inspect
    status,     \* status[r]: the deletion's variable status
    seen,       \* seen[r]: every status the deletion's inspects reported, in order
    retries,    \* retries[r]: the deletion's variable retries
    chunks,     \* chunks[r]: the number of 'data' events of the exec stream of r
    resp,       \* resp[r]: the responses written to res, in order
    rpc,        \* runCodeInContainer: the await the call is suspended on
    language,   \* runCodeInContainer: the argument language
    container,  \* runCodeInContainer: container is not null
    info,       \* runCodeInContainer: what the cleanup's inspect told of State.Running
    output,     \* runCodeInContainer: the characters outputCapture collected
    rlog,       \* runCodeInContainer: the engine calls issued, with their replies
    completion, \* runCodeInContainer: what try/catch left for after finally
    result,     \* runCodeInContainer: what the caller received
    cstatus,    \* the engine: the status of the container, when the engine is modelled
    served,     \* the engine: served[r] is how many calls of log[r] it has executed
    answer      \* the engine: answer[r] is its reply to the last call of r it executed

httpVars == <<kind, app, bodyOk, pc, log, data, status, seen, retries, chunks, resp>>

runVars == <<rpc, language, container, info, output, rlog, completion, result>>

engineVars == <<cstatus, served, answer>>

vars == <<httpVars, runVars, engineVars>>

\* ----------------------------------------------------------------- helpers

\* A call the handler has issued and is suspended on.
Call(op, force) ==
    [op |-> op, force |-> force, res |-> "pending"]

\* The reply of the call the handler is suspended on (the last one issued).
Reply(l, ok) ==
    [l EXCEPT ![Len(l)].res = IF ok THEN "ok" ELSE "err"]

\* res.json(...) / res.send(...)
Ok200(body) ==
    [code |-> 200, body |-> body]

\* res.status(500).json(error) / res.status(500).send(...)
Err500(body) ==
    [code |-> 500, body |-> body]

\* The awaited call resolved and the handler issues its next call c.
Proceed(r, next, c) ==
    /\ pc' = [pc EXCEPT ![r] = next]
    /\ log' = [log EXCEPT ![r] = Append(Reply(@, TRUE), c)]
    /\ UNCHANGED resp

\* The awaited call resolved and the handler sends its success response.
Send(r, body) ==
    /\ pc' = [pc EXCEPT ![r] = "done"]
    /\ log' = [log EXCEPT ![r] = Reply(@, TRUE)]
    /\ resp' = [resp EXCEPT ![r] = Append(@, Ok200(body))]

\* catch (error) { res.status(500)... }: entered by the rejection of the
\* awaited call (replyOk = FALSE) or by a throw after it resolved.
Catch(r, replyOk, body) ==
    /\ pc' = [pc EXCEPT ![r] = "done"]
    /\ log' = [log EXCEPT ![r] = Reply(@, replyOk)]
    /\ resp' = [resp EXCEPT ![r] = Append(@, Err500(body))]

\* An exception outside any try block: the promise the handler returned is
\* rejected and the handler has written nothing to res.  (What becomes of the
\* rejected promise is the framework's business, not the handler's: resp
\* holds what the handlers write.)
Escape(r, replyOk) ==
    /\ pc' = [pc EXCEPT ![r] = "rejected"]
    /\ log' = [log EXCEPT ![r] = Reply(@, replyOk)]
    /\ UNCHANGED resp

\* -------------------------------------------------- DELETE /container/:id

\* const data = await container.inspect(), the first await of the handler
DeleteRequest(r, a) ==
    /\ pc[r] = "idle"
    /\ kind' = [kind EXCEPT ![r] = "delete"]
    /\ app' = [app EXCEPT ![r] = a]
    /\ pc' = [pc EXCEPT ![r] = "del_inspect"]
    /\ log' = [log EXCEPT ![r] = <<Call("inspect", FALSE)>>]
    /\ UNCHANGED <<bodyOk, data, status, seen, retries, chunks, resp, runVars, engineVars>>

\* RestartLoop with the test of the loop off by one (retries >= 0).
RestartLoop_OffByOne(r, s, n) ==
    IF s = "restarting" /\ n >= 0
    THEN Proceed(r, "del_sleep", Call("setTimeout", FALSE))
    ELSE IF s = "running"
         THEN Proceed(r, "del_stop", Call("stop", FALSE))
         ELSE Proceed(r, "del_remove", Call("remove", FALSE))

\* RestartLoop without the stop of a container seen running.
RestartLoop_NoStop(r, s, n) ==
    IF s = "restarting" /\ n > 0
    THEN Proceed(r, "del_sleep", Call("setTimeout", FALSE))
    ELSE Proceed(r, "del_remove", Call("remove", FALSE))

\* RestartLoop that treats the final status as the switch would (forced
\* remove of a dead container).
RestartLoop_ForceDead(r, s, n) ==
    IF s = "restarting" /\ n > 0
    THEN Proceed(r, "del_sleep", Call("setTimeout", FALSE))
    ELSE IF s = "running"
         THEN Proceed(r, "del_stop", Call("stop", FALSE))
         ELSE Proceed(r, "del_remove", Call("remove", s = "dead"))

\* RestartLoop whose loop tests retries only.
RestartLoop_IgnoreStatus(r, s, n) ==
    IF n > 0
    THEN Proceed(r, "del_sleep", Call("setTimeout", FALSE))
    ELSE IF s = "running"
         THEN Proceed(r, "del_stop", Call("stop", FALSE))
         ELSE Proceed(r, "del_remove", Call("remove", FALSE))

\* case "restarting", from the test of the while loop on: s is the value of
\* status and n the value of retries when the test is evaluated.
RestartLoop(r, s, n) ==
    IF s = "restarting" /\ n > 0
    THEN Proceed(r, "del_sleep", Call("setTimeout", FALSE))
    ELSE IF s = "running"
         THEN Proceed(r, "del_stop", Call("stop", FALSE))
         ELSE Proceed(r, "del_remove", Call("remove", FALSE))

\* DeleteSwitch with every direct remove forced.
DeleteSwitch_ForceAll(r, s) ==
    CASE s = "running" ->
            Proceed(r, "del_stop", Call("stop", FALSE)) /\ UNCHANGED retries
      [] s = "paused" ->
            Proceed(r, "del_unpause", Call("unpause", FALSE)) /\ UNCHANGED retries
      [] s = "restarting" ->
            /\ retries' = [retries EXCEPT ![r] = MaxRetries]
            /\ RestartLoop(r, s, MaxRetries)
      [] s \in {"exited", "created", "dead"} ->
            Proceed(r, "del_remove", Call("remove", TRUE)) /\ UNCHANGED retries
      [] s = "removing" ->
            Send(r, "deleted") /\ UNCHANGED retries
      [] OTHER ->
            Catch(r, TRUE, "error") /\ UNCHANGED retries

\* DeleteSwitch whose default case breaks instead of throwing.
DeleteSwitch_DefaultBreaks(r, s) ==
    CASE s = "running" ->
            Proceed(r, "del_stop", Call("stop", FALSE)) /\ UNCHANGED retries
      [] s = "paused" ->
            Proceed(r, "del_unpause", Call("unpause", FALSE)) /\ UNCHANGED retries
      [] s = "restarting" ->
            /\ retries' = [retries EXCEPT ![r] = MaxRetries]
            /\ RestartLoop(r, s, MaxRetries)
      [] s \in {"exited", "created"} ->
            Proceed(r, "del_remove", Call("remove", FALSE)) /\ UNCHANGED retries
      [] s = "dead" ->
            Proceed(r, "del_remove", Call("remove", TRUE)) /\ UNCHANGED retries
      [] OTHER ->
            Send(r, "deleted") /\ UNCHANGED retries

\* DeleteSwitch whose case "removing" falls in with "exited" and "created".
DeleteSwitch_RemovingRemoves(r, s) ==
    CASE s = "running" ->
            Proceed(r, "del_stop", Call("stop", FALSE)) /\ UNCHANGED retries
      [] s = "paused" ->
            Proceed(r, "del_unpause", Call("unpause", FALSE)) /\ UNCHANGED retries
      [] s = "restarting" ->
            /\ retries' = [retries EXCEPT ![r] = MaxRetries]
            /\ RestartLoop(r, s, MaxRetries)
      [] s \in {"exited", "created", "removing"} ->
            Proceed(r, "del_remove", Call("remove", FALSE)) /\ UNCHANGED retries
      [] s = "dead" ->
            Proceed(r, "del_remove", Call("remove", TRUE)) /\ UNCHANGED retries
      [] OTHER ->
            Catch(r, TRUE, "error") /\ UNCHANGED retries

\* switch (status), entered with the status s of the first inspect
DeleteSwitch(r, s) ==
    CASE s = "running" ->
            Proceed(r, "del_stop", Call("stop", FALSE)) /\ UNCHANGED retries
      [] s = "paused" ->
            Proceed(r, "del_unpause", Call("unpause", FALSE)) /\ UNCHANGED retries
      [] s = "restarting" ->
            /\ retries' = [retries EXCEPT ![r] = MaxRetries]
            /\ RestartLoop(r, s, MaxRetries)
      [] s \in {"exited", "created"} ->
            Proceed(r, "del_remove", Call("remove", FALSE)) /\ UNCHANGED retries
      [] s = "dead" ->
            Proceed(r, "del_remove", Call("remove", TRUE)) /\ UNCHANGED retries
      [] s = "removing" ->
            Send(r, "deleted") /\ UNCHANGED retries
      [] OTHER ->
            Catch(r, TRUE, "error") /\ UNCHANGED retries

\* The first inspect returns: let status = data.State.Status; switch (status)
DeleteInspected(r, ok, s) ==
    /\ kind[r] = "delete" /\ pc[r] = "del_inspect"
    /\ IF ok
       THEN /\ data' = [data EXCEPT ![r] = s]
            /\ status' = [status EXCEPT ![r] = s]
            /\ seen' = [seen EXCEPT ![r] = Append(@, s)]
            /\ DeleteSwitch(r, s)
       ELSE /\ Catch(r, FALSE, "error")
            /\ UNCHANGED <<data, status, seen, retries>>
    /\ UNCHANGED <<kind, app, bodyOk, chunks, runVars, engineVars>>

\* DeleteUnpaused that goes on to remove without the stop.
DeleteUnpaused_SkipStop(r, ok) ==
    /\ kind[r] = "delete" /\ pc[r] = "del_unpause"
    /\ IF ok
       THEN Proceed(r, "del_remove", Call("remove", FALSE))
       ELSE Catch(r, FALSE, "error")
    /\ UNCHANGED <<kind, app, bodyOk, data, status, seen, retries, chunks, runVars, engineVars>>

\* case "paused": await container.unpause() returns; await container.stop()
DeleteUnpaused(r, ok) ==
    /\ kind[r] = "delete" /\ pc[r] = "del_unpause"
    /\ IF ok
       THEN Proceed(r, "del_stop", Call("stop", FALSE))
       ELSE Catch(r, FALSE, "error")
    /\ UNCHANGED <<kind, app, bodyOk, data, status, seen, retries, chunks, runVars, engineVars>>

\* DeleteStopped that answers after the stop, without the remove.
DeleteStopped_NoRemove(r, ok) ==
    /\ kind[r] = "delete" /\ pc[r] = "del_stop"
    /\ IF ok
       THEN Send(r, "deleted")
       ELSE Catch(r, FALSE, "error")
    /\ UNCHANGED <<kind, app, bodyOk, data, status, seen, retries, chunks, runVars, engineVars>>

\* DeleteStopped that goes on to remove whatever stop replied.
DeleteStopped_IgnoreError(r, ok) ==
    /\ kind[r] = "delete" /\ pc[r] = "del_stop"
    /\ pc' = [pc EXCEPT ![r] = "del_remove"]
    /\ log' = [log EXCEPT ![r] = Append(Reply(@, ok), Call("remove", FALSE))]
    /\ UNCHANGED <<kind, app, bodyOk, data, status, seen, retries, chunks, resp, runVars, engineVars>>

\* await container.stop() returns (cases "running", "paused", "restarting");
\* await container.remove()
DeleteStopped(r, ok) ==
    /\ kind[r] = "delete" /\ pc[r] = "del_stop"
    /\ IF ok
       THEN Proceed(r, "del_remove", Call("remove", FALSE))
       ELSE Catch(r, FALSE, "error")
    /\ UNCHANGED <<kind, app, bodyOk, data, status, seen, retries, chunks, runVars, engineVars>>

\* DeleteTimerFired whose promise is never resolved (the timer's callback
\* does not call r): the handler stays suspended.
DeleteTimerFired_NeverResolves(r) ==
    /\ kind[r] = "delete" /\ pc[r] = "del_sleep"
    /\ UNCHANGED vars

\* await new Promise(r => setTimeout(r, 1000)) resolves;
\* const refreshed = await container.inspect()
DeleteTimerFired(r) ==
    /\ kind[r] = "delete" /\ pc[r] = "del_sleep"
    /\ Proceed(r, "del_poll", Call("inspect", FALSE))
    /\ UNCHANGED <<kind, app, bodyOk, data, status, seen, retries, chunks, runVars, engineVars>>

\* The inspect of the loop returns: status = refreshed.State.Status;
\* retries--; then the test of the loop again
DeletePolled(r, ok, s) ==
    /\ kind[r] = "delete" /\ pc[r] = "del_poll"
    /\ IF ok
       THEN /\ status' = [status EXCEPT ![r] = s]
            /\ seen' = [seen EXCEPT ![r] = Append(@, s)]
            /\ retries' = [retries EXCEPT ![r] = @ - 1]
            /\ RestartLoop(r, s, retries[r] - 1)
       ELSE /\ Catch(r, FALSE, "error")
            /\ UNCHANGED <<status, seen, retries>>
    /\ UNCHANGED <<kind, app, bodyOk, data, chunks, runVars, engineVars>>

\* DeleteRemoved that answers with the success message whatever remove replied.
DeleteRemoved_Swallow(r, ok) ==
    /\ kind[r] = "delete" /\ pc[r] = "del_remove"
    /\ pc' = [pc EXCEPT ![r] = "done"]
    /\ log' = [log EXCEPT ![r] = Reply(@, ok)]
    /\ resp' = [resp EXCEPT ![r] = Append(@, Ok200("deleted"))]
    /\ UNCHANGED <<kind, app, bodyOk, data, status, seen, retries, chunks, runVars, engineVars>>

\* await container.remove(...) returns; break; res.json({message: ...})
DeleteRemoved(r, ok) ==
    /\ kind[r] = "delete" /\ pc[r] = "del_remove"
    /\ IF ok
       THEN Send(r, "deleted")
       ELSE Catch(r, FALSE, "error")
    /\ UNCHANGED <<kind, app, bodyOk, data, status, seen, retries, chunks, runVars, engineVars>>

\* ------------------------------------------------------- the other routes

\* A handler that touches none of the deletion's variables.
Arrive(r, k, a, b) ==
    /\ pc[r] = "idle"
    /\ kind' = [kind EXCEPT ![r] = k]
    /\ app' = [app EXCEPT ![r] = a]
    /\ bodyOk' = [bodyOk EXCEPT ![r] = b]
    /\ UNCHANGED <<data, status, seen, retries, chunks, runVars, engineVars>>

\* The frame of a continuation of such a handler.
Resume(r, k, at) ==
    /\ kind[r] = k /\ pc[r] = at
    /\ UNCHANGED <<kind, app, bodyOk, data, status, seen, retries, chunks, runVars, engineVars>>

\* app.get("/"): res.json({ working: true })
RootRequest(r, a) ==
    /\ Arrive(r, "root", a, TRUE)
    /\ pc' = [pc EXCEPT ![r] = "done"]
    /\ resp' = [resp EXCEPT ![r] = Append(@, Ok200("working"))]
    /\ UNCHANGED log

\* app.get('/container/list'): await docker.listContainers({ all: false })
ListRequest(r, a) ==
    /\ Arrive(r, "list", a, TRUE)
    /\ pc' = [pc EXCEPT ![r] = "list_call"]
    /\ log' = [log EXCEPT ![r] = <<Call("listContainers", FALSE)>>]
    /\ UNCHANGED resp

\* listContainers returns: res.json(containers), or the catch block
ListReturned(r, ok) ==
    /\ Resume(r, "list", "list_call")
    /\ IF ok THEN Send(r, "containers") ELSE Catch(r, FALSE, "error")

\* app.get('/container/:id'): await container.inspect()
InspectRequest(r, a) ==
    /\ Arrive(r, "inspect", a, TRUE)
    /\ pc' = [pc EXCEPT ![r] = "ins_call"]
    /\ log' = [log EXCEPT ![r] = <<Call("inspect", FALSE)>>]
    /\ UNCHANGED resp

\* inspect returns: res.json(data), or the catch block
InspectReturned(r, ok) ==
    /\ Resume(r, "inspect", "ins_call")
    /\ IF ok THEN Send(r, "data") ELSE Catch(r, FALSE, "error")

\* app.post('/container/create'): index.ts starts with createContainer,
\* temp.js with docker.pull(body.Image, callback)
CreateRequest(r, a) ==
    /\ Arrive(r, "create", a, TRUE)
    /\ IF a = "temp.js"
       THEN /\ pc' = [pc EXCEPT ![r] = "cr_pull"]
            /\ log' = [log EXCEPT ![r] = <<Call("pull", FALSE)>>]
       ELSE /\ pc' = [pc EXCEPT ![r] = "cr_create"]
            /\ log' = [log EXCEPT ![r] = <<Call("createContainer", FALSE)>>]
    /\ UNCHANGED resp

\* The callback of docker.pull: if (err) return reject(err);
\* docker.modem.followProgress(stream, ...)
CreatePulled(r, ok) ==
    /\ Resume(r, "create", "cr_pull")
    /\ IF ok
       THEN Proceed(r, "cr_progress", Call("followProgress", FALSE))
       ELSE Catch(r, FALSE, "error")

\* The callback of followProgress: (err) => (err ? reject(err) : resolve());
\* await docker.createContainer(body)
CreateProgressed(r, ok) ==
    /\ Resume(r, "create", "cr_progress")
    /\ IF ok
       THEN Proceed(r, "cr_create", Call("createContainer", FALSE))
       ELSE Catch(r, FALSE, "error")

\* CreateCreated that goes on to inspect without the start.
CreateCreated_SkipStart(r, ok) ==
    /\ Resume(r, "create", "cr_create")
    /\ IF ok
       THEN Proceed(r, "cr_start", Call("inspect", FALSE))
       ELSE Catch(r, FALSE, "error")

\* createContainer returns; await container.start()
CreateCreated(r, ok) ==
    /\ Resume(r, "create", "cr_create")
    /\ IF ok
       THEN Proceed(r, "cr_start", Call("start", FALSE))
       ELSE Catch(r, FALSE, "error")

\* start returns; await container.inspect()
CreateStarted(r, ok) ==
    /\ Resume(r, "create", "cr_start")
    /\ IF ok
       THEN Proceed(r, "cr_inspect", Call("inspect", FALSE))
       ELSE Catch(r, FALSE, "error")

\* inspect returns; res.json(data)
CreateInspected(r, ok) ==
    /\ Resume(r, "create", "cr_inspect")
    /\ IF ok THEN Send(r, "data") ELSE Catch(r, FALSE, "error")

\* app.post('/container/run').  index.ts: the try block is empty, the handler
\* returns having called nothing and written nothing.  temp.js:
\* body.Cmd.trim() stands before the try block and throws on a body without
\* Cmd; then await docker.run(...)
RunRequest(r, a, b) ==
    /\ Arrive(r, "run", a, b)
    /\ IF a = "index.ts"
       THEN /\ pc' = [pc EXCEPT ![r] = "done"]
            /\ UNCHANGED log
       ELSE IF b
            THEN /\ pc' = [pc EXCEPT ![r] = "run_call"]
                 /\ log' = [log EXCEPT ![r] = <<Call("run", FALSE)>>]
            ELSE /\ pc' = [pc EXCEPT ![r] = "rejected"]
                 /\ UNCHANGED log
    /\ UNCHANGED resp

\* docker.run returns: res.json(output), or the catch block
RunReturned(r, ok) ==
    /\ Resume(r, "run", "run_call")
    /\ IF ok THEN Send(r, "output") ELSE Catch(r, FALSE, "error")

\* app.post('/container/run/:id') (temp.js only):
\* const data = await container.inspect(), before the try block
RunIdRequest(r, a, b) ==
    /\ a = "temp.js"
    /\ Arrive(r, "run_id", a, b)
    /\ pc' = [pc EXCEPT ![r] = "rid_inspect"]
    /\ log' = [log EXCEPT ![r] = <<Call("inspect", FALSE)>>]
    /\ UNCHANGED resp

\* inspect returns.  A rejection is outside the try block.  A resolved
\* inspect yields an object, so if (!data) does not fire; code.replace(...)
\* throws, still before the try block, on a body without code; then
\* await container.exec(...)
RunIdInspected(r, ok) ==
    /\ Resume(r, "run_id", "rid_inspect")
    /\ IF ok /\ bodyOk[r]
       THEN Proceed(r, "rid_exec", Call("exec", FALSE))
       ELSE Escape(r, ok)

\* exec returns; await exec.start({})
RunIdExeced(r, ok) ==
    /\ Resume(r, "run_id", "rid_exec")
    /\ IF ok
       THEN Proceed(r, "rid_start", Call("execStart", FALSE))
       ELSE Catch(r, FALSE, "Error executing code")

\* exec.start returns; the 'data' and 'end' listeners are registered and the
\* handler returns without a response
RunIdStarted(r, ok) ==
    /\ Resume(r, "run_id", "rid_start")
    /\ IF ok
       THEN /\ pc' = [pc EXCEPT ![r] = "rid_stream"]
            /\ log' = [log EXCEPT ![r] = Reply(@, TRUE)]
            /\ UNCHANGED resp
       ELSE Catch(r, FALSE, "Error executing code")

\* stream.on("data", (chunk) => (output += chunk.toString()))
RunIdStreamData(r) ==
    /\ kind[r] = "run_id" /\ pc[r] = "rid_stream"
    /\ chunks[r] < MaxChunks
    /\ chunks' = [chunks EXCEPT ![r] = @ + 1]
    /\ UNCHANGED <<kind, app, bodyOk, pc, log, data, status, seen, retries, resp, runVars, engineVars>>

\* stream.on("end", () => res.send({output}))
RunIdStreamEnd(r) ==
    /\ kind[r] = "run_id" /\ pc[r] = "rid_stream"
    /\ pc' = [pc EXCEPT ![r] = "done"]
    /\ resp' = [resp EXCEPT ![r] = Append(@, Ok200("output"))]
    /\ UNCHANGED <<kind, app, bodyOk, log, data, status, seen, retries, chunks, runVars, engineVars>>

\* The stream emits 'error': the handler registered no listener for it, so
\* nothing is written to res
RunIdStreamError(r) ==
    /\ kind[r] = "run_id" /\ pc[r] = "rid_stream"
    /\ pc' = [pc EXCEPT ![r] = "uncaught"]
    /\ UNCHANGED <<kind, app, bodyOk, log, data, status, seen, retries, chunks, resp, runVars, engineVars>>

\* ------------------------------------------------------ runCodeInContainer

\* The language tags the runner is called with: the two keys of
\* executionEnvironments, a tag that is no property of it, and a tag that
\* is no key of it but a property every object inherits.
Languages ==
    {"python", "javascript", "ruby", "constructor"}

\* The characters of the output: one that trim() keeps and one it strips.
Chars ==
    {"x", " "}

\* const executionEnvironments = { 'python': ..., 'javascript': ... }
executionEnvironments ==
    {"python", "javascript"}

\* const env = executionEnvironments[language]; if (!env): a property lookup
\* on an object literal, which also finds what Object.prototype provides.
HasEnv(l) ==
    l \in executionEnvironments \/ l = "constructor"

\* switch (language): the cases that define execCmd
HasExecCmd(l) ==
    l \in {"python", "javascript"}

RECURSIVE TrimLeft(_)
TrimLeft(s) ==
    IF s = <<>> THEN s
    ELSE IF Head(s) = " " THEN TrimLeft(Tail(s)) ELSE s

RECURSIVE TrimRight(_)
TrimRight(s) ==
    IF s = <<>> THEN s
    ELSE IF s[Len(s)] = " " THEN TrimRight(SubSeq(s, 1, Len(s) - 1)) ELSE s

\* output.trim()
Trim(s) ==
    TrimRight(TrimLeft(s))

NoCompletion ==
    [type |-> "none", msg |-> "", cause |-> "", value |-> <<>>]

\* return output.trim()
Returned(v) ==
    [type |-> "return", msg |-> "", cause |-> "", value |-> v]

\* throw new Error(msg + cause)
Thrown(m, c) ==
    [type |-> "throw", msg |-> m, cause |-> c, value |-> <<>>]

\* The awaited call resolved and the function issues its next call c.
RunProceed(next, c) ==
    /\ rpc' = next
    /\ rlog' = Append(Reply(rlog, TRUE), c)
    /\ UNCHANGED <<completion, result>>

\* finally { if (container) { try { const info = await container.inspect()
\* ...: entered with the completion c of the try or catch block; without a
\* container the caller receives c at once.
RunFinally(ok, c) ==
    IF container
    THEN /\ rpc' = "cl_inspect"
         /\ rlog' = Append(Reply(rlog, ok), Call("inspect", FALSE))
         /\ completion' = c
         /\ UNCHANGED result
    ELSE /\ rpc' = "finished"
         /\ rlog' = Reply(rlog, ok)
         /\ result' = c
         /\ UNCHANGED completion

\* catch (error) { throw new Error(`Failed to execute code: ${error.message}`) }
RunCatch(op) ==
    RunFinally(FALSE, Thrown("Failed to execute code", op))

\* Deliver that lets the error of a failed cleanup call reach the caller.
Deliver_Rethrow(ok) ==
    /\ rpc' = "finished"
    /\ rlog' = Reply(rlog, ok)
    /\ result' = IF ok THEN completion ELSE Thrown("Failed to clean up", "cleanup")
    /\ UNCHANGED completion

\* The end of the finally block (after the cleanup, or after its catch
\* (cleanupError) block): the caller receives what try/catch left.
Deliver(ok) ==
    /\ rpc' = "finished"
    /\ rlog' = Reply(rlog, ok)
    /\ result' = completion
    /\ UNCHANGED completion

\* RunCode without the two checks of the language before the try block.
RunCode_Unchecked(l) ==
    /\ rpc = "idle"
    /\ language' = l
    /\ rpc' = "create"
    /\ rlog' = <<Call("createContainer", FALSE)>>
    /\ UNCHANGED <<result, container, output, info, completion, httpVars, engineVars>>

\* runCodeInContainer(language, code) up to its first await
RunCode(l) ==
    /\ rpc = "idle"
    /\ language' = l
    /\ IF ~HasEnv(l)
       THEN /\ rpc' = "finished"
            /\ result' = Thrown("Unsupported language environment", l)
            /\ UNCHANGED rlog
       ELSE IF ~HasExecCmd(l)
            THEN /\ rpc' = "finished"
                 /\ result' = Thrown("Execution command not defined", l)
                 /\ UNCHANGED rlog
            ELSE /\ rpc' = "create"
                 /\ rlog' = <<Call("createContainer", FALSE)>>
                 /\ UNCHANGED result
    /\ UNCHANGED <<container, output, info, completion, httpVars, engineVars>>

\* container = await docker.createContainer(...); await container.start()
RunCreated(ok) ==
    /\ rpc = "create"
    /\ IF ok
       THEN /\ container' = TRUE
            /\ RunProceed("start", Call("start", FALSE))
       ELSE /\ RunCatch("createContainer")
            /\ UNCHANGED container
    /\ UNCHANGED <<language, output, info, httpVars, engineVars>>

\* start returns; const exec = await container.exec(...)
RunStarted(ok) ==
    /\ rpc = "start"
    /\ IF ok THEN RunProceed("exec", Call("exec", FALSE)) ELSE RunCatch("start")
    /\ UNCHANGED <<language, container, output, info, httpVars, engineVars>>

\* exec returns; const stream = await exec.start(...)
RunExeced(ok) ==
    /\ rpc = "exec"
    /\ IF ok THEN RunProceed("execStart", Call("execStart", FALSE)) ELSE RunCatch("exec")
    /\ UNCHANGED <<language, container, output, info, httpVars, engineVars>>

\* exec.start returns; demuxStream(stream, outputCapture, outputCapture);
\* await new Promise((resolve, reject) => { stream.on('end', resolve); ... })
RunExecStarted(ok) ==
    /\ rpc = "execStart"
    /\ IF ok THEN RunProceed("stream", Call("stream", FALSE)) ELSE RunCatch("execStart")
    /\ UNCHANGED <<language, container, output, info, httpVars, engineVars>>

\* outputCapture.write: output += chunk.toString()
RunStreamData(c) ==
    /\ rpc = "stream"
    /\ Len(output) < MaxChunks
    /\ output' = Append(output, c)
    /\ UNCHANGED <<rpc, language, container, info, rlog, completion, result, httpVars, engineVars>>

\* stream.on('end', resolve); const execInspect = await exec.inspect()
RunStreamEnd ==
    /\ rpc = "stream"
    /\ RunProceed("execInspect", Call("execInspect", FALSE))
    /\ UNCHANGED <<language, container, output, info, httpVars, engineVars>>

\* stream.on('error', reject)
RunStreamError ==
    /\ rpc = "stream"
    /\ RunCatch("stream")
    /\ UNCHANGED <<language, container, output, info, httpVars, engineVars>>

\* exec.inspect returns; a non-zero ExitCode is logged only;
\* return output.trim()
RunExecInspected(ok, exitCode) ==
    /\ rpc = "execInspect"
    /\ IF ok THEN RunFinally(TRUE, Returned(Trim(output))) ELSE RunCatch("execInspect")
    /\ UNCHANGED <<language, container, output, info, httpVars, engineVars>>

\* The inspect of the cleanup returns: if (info.State.Running)
\* await container.stop({ t: 1 }); await container.remove()
CleanupInspected(ok, running) ==
    /\ rpc = "cl_inspect"
    /\ IF ok
       THEN /\ info' = IF running THEN "running" ELSE "stopped"
            /\ IF running
               THEN RunProceed("cl_stop", Call("stop", FALSE))
               ELSE RunProceed("cl_remove", Call("remove", FALSE))
       ELSE /\ Deliver(FALSE)
            /\ UNCHANGED info
    /\ UNCHANGED <<language, container, output, httpVars, engineVars>>

\* The stop of the cleanup returns; await container.remove()
CleanupStopped(ok) ==
    /\ rpc = "cl_stop"
    /\ IF ok THEN RunProceed("cl_remove", Call("remove", FALSE)) ELSE Deliver(FALSE)
    /\ UNCHANGED <<language, container, output, info, httpVars, engineVars>>

\* The remove of the cleanup returns
CleanupRemoved(ok) ==
    /\ rpc = "cl_remove"
    /\ Deliver(ok)
    /\ UNCHANGED <<language, container, output, info, httpVars, engineVars>>

\* ----------------------------------------------------------- specification

\* No call executed yet.
NoAnswer ==
    [ok |-> FALSE, st |-> "none"]

Init ==
    /\ kind = [r \in Reqs |-> "none"]
    /\ app = [r \in Reqs |-> "none"]
    /\ bodyOk = [r \in Reqs |-> TRUE]
    /\ pc = [r \in Reqs |-> "idle"]
    /\ log = [r \in Reqs |-> <<>>]
    /\ data = [r \in Reqs |-> "none"]
    /\ status = [r \in Reqs |-> "none"]
    /\ seen = [r \in Reqs |-> <<>>]
    /\ retries = [r \in Reqs |-> 0]
    /\ chunks = [r \in Reqs |-> 0]
    /\ resp = [r \in Reqs |-> <<>>]
    /\ rpc = "idle"
    /\ language = "none"
    /\ container = FALSE
    /\ info = "none"
    /\ output = <<>>
    /\ rlog = <<>>
    /\ completion = NoCompletion
    /\ result = NoCompletion
    /\ cstatus = "none"
    /\ served = [r \in Reqs |-> 0]
    /\ answer = [r \in Reqs |-> NoAnswer]

\* One request, served by either file, against an engine whose replies are
\* not constrained.
Next ==
    \E r \in {"r1"} :
        \/ \E a \in Apps : DeleteRequest(r, a)
        \/ \E ok \in BOOLEAN, s \in Statuses : DeleteInspected(r, ok, s)
        \/ \E ok \in BOOLEAN : DeleteUnpaused(r, ok)
        \/ \E ok \in BOOLEAN : DeleteStopped(r, ok)
        \/ DeleteTimerFired(r)
        \/ \E ok \in BOOLEAN, s \in Statuses : DeletePolled(r, ok, s)
        \/ \E ok \in BOOLEAN : DeleteRemoved(r, ok)
        \/ \E a \in Apps : RootRequest(r, a)
        \/ \E a \in Apps : ListRequest(r, a)
        \/ \E ok \in BOOLEAN : ListReturned(r, ok)
        \/ \E a \in Apps : InspectRequest(r, a)
        \/ \E ok \in BOOLEAN : InspectReturned(r, ok)
        \/ \E a \in Apps : CreateRequest(r, a)
        \/ \E ok \in BOOLEAN : CreatePulled(r, ok)
        \/ \E ok \in BOOLEAN : CreateProgressed(r, ok)
        \/ \E ok \in BOOLEAN : CreateCreated(r, ok)
        \/ \E ok \in BOOLEAN : CreateStarted(r, ok)
        \/ \E ok \in BOOLEAN : CreateInspected(r, ok)
        \/ \E a \in Apps, b \in BOOLEAN : RunRequest(r, a, b)
        \/ \E ok \in BOOLEAN : RunReturned(r, ok)
        \/ \E a \in Apps, b \in BOOLEAN : RunIdRequest(r, a, b)
        \/ \E ok \in BOOLEAN : RunIdInspected(r, ok)
        \/ \E ok \in BOOLEAN : RunIdExeced(r, ok)
        \/ \E ok \in BOOLEAN : RunIdStarted(r, ok)
        \/ RunIdStreamData(r)
        \/ RunIdStreamEnd(r)
        \/ RunIdStreamError(r)

Spec == Init /\ [][Next]_vars

\* One call of runCodeInContainer, against an engine whose replies are not
\* constrained.
NextRun ==
    \/ \E l \in Languages : RunCode(l)
    \/ \E ok \in BOOLEAN : RunCreated(ok)
    \/ \E ok \in BOOLEAN : RunStarted(ok)
    \/ \E ok \in BOOLEAN : RunExeced(ok)
    \/ \E ok \in BOOLEAN : RunExecStarted(ok)
    \/ \E c \in Chars : RunStreamData(c)
    \/ RunStreamEnd
    \/ RunStreamError
    \/ \E ok \in BOOLEAN, exitCode \in {0, 1} : RunExecInspected(ok, exitCode)
    \/ \E ok \in BOOLEAN, running \in BOOLEAN : CleanupInspected(ok, running)
    \/ \E ok \in BOOLEAN : CleanupStopped(ok)
    \/ \E ok \in BOOLEAN : CleanupRemoved(ok)

SpecRun == Init /\ [][NextRun]_vars

\* ------------------------------------------------- properties: vocabulary

\* The engine calls of request r, without the timers of the polling loop.
EngineCalls(r) ==
    SelectSeq(log[r], LAMBDA c : c.op \in EngineOps)

\* The operations of a sequence of calls, with their force flag.
Sig(l) ==
    [i \in 1..Len(l) |-> <<l[i].op, l[i].force>>]

IsPrefix(a, b) ==
    /\ Len(a) <= Len(b)
    /\ \A i \in 1..Len(a) : a[i] = b[i]

\* How many calls of operation op a sequence holds.
Count(l, op) ==
    Cardinality({i \in 1..Len(l) : l[i].op = op})

\* Some call of the sequence was rejected.
SomeFailed(l) ==
    \E i \in 1..Len(l) : l[i].res = "err"

\* The success response of the deletion, and nothing else, was sent.
SentDeleted(r) ==
    resp[r] = <<Ok200("deleted")>>

\* One response, with status 500, was sent.
Sent500(r) ==
    Len(resp[r]) = 1 /\ resp[r][1].code = 500

\* The handler of r will run no more code.
Finished(r) ==
    pc[r] \in {"done", "rejected", "uncaught"}

\* A deletion whose first inspect reported a status of S.
DeletionOf(r, S) ==
    kind[r] = "delete" /\ data[r] \in S

\* --------------------------------------------------------------- properties

\* C1: a deletion whose first inspect reports paused issues, after the
\* inspect, unpause, then stop, then remove without force, in that order and
\* nothing else; when every call succeeds it has issued each of them exactly
\* once before it responds (with the success message).
C1_PausedSequence ==
    \A r \in Reqs :
        DeletionOf(r, {"paused"}) =>
            /\ Len(log[r]) >= 2
            /\ IsPrefix(Sig(log[r]),
                        << <<"inspect", FALSE>>, <<"unpause", FALSE>>,
                           <<"stop", FALSE>>, <<"remove", FALSE>> >>)
            /\ (resp[r] # <<>> /\ ~SomeFailed(log[r])) =>
                    /\ Len(log[r]) = 4
                    /\ SentDeleted(r)

C1_Witness ==
    \E r \in Reqs :
        /\ DeletionOf(r, {"paused"})
        /\ pc[r] = "done" /\ ~SomeFailed(log[r]) /\ SentDeleted(r)
        /\ Len(log[r]) = 4

\* C2: a deletion whose first inspect reports exited, created or dead issues
\* exactly one remove, no stop and no unpause, and the remove is forced if and
\* only if the status is dead.
C2_DirectRemove ==
    \A r \in Reqs :
        DeletionOf(r, {"exited", "created", "dead"}) =>
            Sig(log[r]) = << <<"inspect", FALSE>>, <<"remove", data[r] = "dead">> >>

C2_Witness ==
    \E r \in Reqs :
        /\ DeletionOf(r, {"dead"})
        /\ pc[r] = "done" /\ SentDeleted(r)
        /\ log[r][2] = [op |-> "remove", force |-> TRUE, res |-> "ok"]

\* C3: a deletion whose first inspect reports a status the switch has no case
\* for fails with a 500 response, never the success message, and issues no
\* call after the inspect.
C3_UnknownStatusFails ==
    \A r \in Reqs :
        (kind[r] = "delete" /\ data[r] = "frozen") =>
            /\ pc[r] = "done"
            /\ Sent500(r)
            /\ Sig(log[r]) = << <<"inspect", FALSE>> >>

C3_Witness ==
    \E r \in Reqs :
        kind[r] = "delete" /\ data[r] = "frozen" /\ Sent500(r)

\* C4: a deletion whose first inspect and every later inspect report
\* restarting polls at most 5 times, keeps retries within 0..5 (5 less the
\* polls that returned), and after the 5th poll issues remove and no inspect.
C4_StuckRestartingBounded ==
    \A r \in Reqs :
        (DeletionOf(r, {"restarting"}) /\ \A i \in 1..Len(seen[r]) : seen[r][i] = "restarting") =>
            /\ Count(log[r], "inspect") <= 1 + MaxRetries
            /\ retries[r] \in 0..MaxRetries
            /\ retries[r] = MaxRetries - (Len(seen[r]) - 1)
            /\ Len(seen[r]) = 1 + MaxRetries =>
                    /\ Sig(EngineCalls(r)) =
                        [i \in 1..(2 + MaxRetries) |->
                            IF i <= 1 + MaxRetries THEN <<"inspect", FALSE>>
                            ELSE <<"remove", FALSE>>]
                    /\ pc[r] \in {"del_remove", "done"}

C4_Witness ==
    \E r \in Reqs :
        /\ DeletionOf(r, {"restarting"})
        /\ seen[r] = [i \in 1..(1 + MaxRetries) |-> "restarting"]
        /\ retries[r] = 0
        /\ pc[r] = "done" /\ SentDeleted(r)

\* C5: in a deletion whose first inspect reports restarting, stop is issued
\* only when the last observed status is running; once a poll has reported
\* running, stop has been issued exactly once, right after that poll, and
\* remove is issued only after that stop succeeded.
C5_RestartingThenRunning ==
    \A r \in Reqs :
        DeletionOf(r, {"restarting"}) =>
            /\ Count(log[r], "stop") > 0 => status[r] = "running"
            /\ status[r] = "running" =>
                    LET calls == EngineCalls(r)
                        k == Len(seen[r]) + 1
                    IN  /\ Count(log[r], "stop") = 1
                        /\ Len(calls) >= k
                        /\ calls[k].op = "stop"
                        /\ Count(log[r], "remove") <= 1
                        /\ Count(log[r], "remove") = 1 =>
                                /\ calls[k].res = "ok"
                                /\ Len(calls) = k + 1
                                /\ calls[k + 1].op = "remove"

C5_Witness ==
    \E r \in Reqs :
        /\ DeletionOf(r, {"restarting"})
        /\ status[r] = "running"
        /\ Len(seen[r]) = 3
        /\ pc[r] = "done" /\ SentDeleted(r)

\* C6: a deletion whose first inspect reports running issues stop and then,
\* only after stop succeeded, remove without force, each once, and neither
\* unpause nor another inspect.
C6_RunningSequence ==
    \A r \in Reqs :
        DeletionOf(r, {"running"}) =>
            /\ Len(log[r]) >= 2
            /\ IsPrefix(Sig(log[r]),
                        << <<"inspect", FALSE>>, <<"stop", FALSE>>, <<"remove", FALSE>> >>)
            /\ Len(log[r]) = 3 => log[r][2].res = "ok"
            /\ SentDeleted(r) => Len(log[r]) = 3

C6_Witness ==
    \E r \in Reqs :
        /\ DeletionOf(r, {"running"})
        /\ pc[r] = "done" /\ SentDeleted(r)
        /\ Len(log[r]) = 3

\* C7: a deletion whose first inspect reports removing responds with the
\* success message and issues no call after the inspect.
C7_RemovingIsNoOp ==
    \A r \in Reqs :
        DeletionOf(r, {"removing"}) =>
            /\ pc[r] = "done"
            /\ SentDeleted(r)
            /\ Sig(log[r]) = << <<"inspect", FALSE>> >>

C7_Witness ==
    \E r \in Reqs :
        DeletionOf(r, {"removing"}) /\ SentDeleted(r)

\* C8: in a deletion, a failed engine call is the last call the request
\* issues, and the request answers it with one 500 response and never with
\* the success message.
C8_FailureStopsDeletion ==
    \A r \in Reqs :
        kind[r] = "delete" =>
            \A i \in 1..Len(log[r]) :
                log[r][i].res = "err" =>
                    /\ i = Len(log[r])
                    /\ pc[r] = "done"
                    /\ Sent500(r)

C8_Witness ==
    \E r \in Reqs :
        /\ kind[r] = "delete"
        /\ Len(log[r]) = 3
        /\ log[r][3].op = "stop" /\ log[r][3].res = "err"
        /\ Sent500(r)

\* The routes of the facade that reach the engine.
FacadeKinds ==
    Kinds \ {"root"}

\* C9: every request of the facade (list, create, run, run/:id, inspect,
\* delete) in which an engine call failed has, once its handler has finished,
\* received exactly one response, with status 500; and no request whose
\* handler finished with a failed engine call or with no engine call at all is
\* left without a response.
C9_EveryFailureAnswered500 ==
    \A r \in Reqs :
        (kind[r] \in FacadeKinds /\ Finished(r)) =>
            /\ SomeFailed(log[r]) => Sent500(r)
            /\ (SomeFailed(log[r]) \/ EngineCalls(r) = <<>>) => resp[r] # <<>>

\* C10: runCodeInContainer called with a tag that is no configured
\* environment throws before its try block - "Unsupported language
\* environment" for a tag executionEnvironments has no property for,
\* "Execution command not defined" for a tag that only names an inherited
\* property - and issues no engine call and creates no container.
C10_UnsupportedLanguageNoCall ==
    (language \in Languages \ executionEnvironments) =>
        /\ rpc = "finished"
        /\ result = Thrown(IF language = "constructor"
                           THEN "Execution command not defined"
                           ELSE "Unsupported language environment", language)
        /\ rlog = <<>>
        /\ ~container

C10_Witness ==
    /\ language = "ruby"
    /\ rpc = "finished"
    /\ result.type = "throw"
    /\ result.msg = "Unsupported language environment"
    /\ rlog = <<>>

\* The calls of the try block of runCodeInContainer (the cleanup's are
\* inspect, stop and remove).
TryOps ==
    {"createContainer", "start", "exec", "execStart", "stream", "execInspect"}

\* C11: once createContainer has succeeded, whatever happened afterwards, by
\* the time the caller receives the result or the error the cleanup has
\* attempted to remove the container, and has attempted to stop it if it was
\* still running.
C11_CleanupAlwaysAttempted ==
    (container /\ rpc = "finished") =>
        /\ Count(rlog, "remove") = 1
        /\ info = "running" => Count(rlog, "stop") = 1

\* C12: when runCodeInContainer has created a container, what the caller
\* receives is decided by the try block alone - the wrapped error of the call
\* of the try block that failed, else the trimmed output - whatever the calls
\* of the cleanup replied.
C12_CleanupNeverChangesOutcome ==
    (container /\ rpc = "finished") =>
        LET failed == {i \in 1..Len(rlog) : rlog[i].op \in TryOps /\ rlog[i].res = "err"}
        IN  result = IF failed # {}
                     THEN Thrown("Failed to execute code", rlog[CHOOSE i \in failed : TRUE].op)
                     ELSE Returned(Trim(output))

C12_Witness ==
    /\ container /\ rpc = "finished"
    /\ rlog[Len(rlog)].op = "remove" /\ rlog[Len(rlog)].res = "err"
    /\ result.type = "return" /\ result.value = <<"x">>
    /\ output = <<"x", " ">>

\* The loop of case "restarting" is over and every inspect was answered.
PollingEnded(r) ==
    /\ DeletionOf(r, {"restarting"})
    /\ pc[r] \in {"del_stop", "del_remove", "done"}
    /\ \A i \in 1..Len(log[r]) : log[r][i].op = "inspect" => log[r][i].res = "ok"

\* C13: in a deletion whose first inspect reports restarting there is no
\* unpause, no forced remove and no failure other than that of a call; once
\* polling has ended with a last status other than running, the one call that
\* follows the inspects is remove without force, whatever that status is; with
\* running, stop comes first and remove once after it succeeded.
C13_RemoveWhateverFinalStatus ==
    \A r \in Reqs :
        DeletionOf(r, {"restarting"}) =>
            /\ Count(log[r], "unpause") = 0
            /\ \A i \in 1..Len(log[r]) : ~log[r][i].force
            /\ Count(log[r], "remove") <= 1
            /\ (resp[r] # <<>> /\ ~SomeFailed(log[r])) => SentDeleted(r)
            /\ (PollingEnded(r) /\ status[r] # "running") =>
                    /\ Count(log[r], "stop") = 0
                    /\ Sig(EngineCalls(r)) =
                        [i \in 1..(Len(seen[r]) + 1) |->
                            IF i <= Len(seen[r]) THEN <<"inspect", FALSE>>
                            ELSE <<"remove", FALSE>>]
            /\ (PollingEnded(r) /\ status[r] = "running" /\ pc[r] # "del_stop"
                    /\ ~SomeFailed(log[r])) =>
                    Count(log[r], "remove") = 1

C13_Witness ==
    \E r \in Reqs :
        /\ PollingEnded(r)
        /\ status[r] = "frozen"
        /\ pc[r] = "done" /\ SentDeleted(r)
        /\ Count(log[r], "remove") = 1

\* C14: in a deletion whose first inspect reports restarting, every status
\* observed before the last one is restarting (no inspect follows a poll that
\* reported anything else), exactly one timer that has fired stands between
\* two consecutive inspects, and no deletion issues more than 6 inspects.
C14_PollOnlyWhileRestarting ==
    \A r \in Reqs :
        kind[r] = "delete" =>
            /\ Count(log[r], "inspect") <= 1 + MaxRetries
            /\ Count(log[r], "inspect") > 1 => data[r] = "restarting"
            /\ \A i \in 1..(Len(seen[r]) - 1) : seen[r][i] = "restarting"
            /\ \A i \in 2..Len(log[r]) :
                    /\ log[r][i].op = "inspect" =>
                            log[r][i - 1].op = "setTimeout" /\ log[r][i - 1].res = "ok"
                    /\ log[r][i].op = "setTimeout" =>
                            /\ log[r][i - 1].op = "inspect" /\ log[r][i - 1].res = "ok"
                            /\ i < Len(log[r]) => log[r][i + 1].op = "inspect"

C14_Witness ==
    \E r \in Reqs :
        /\ DeletionOf(r, {"restarting"})
        /\ seen[r] = <<"restarting", "restarting", "exited">>
        /\ Count(log[r], "setTimeout") = 2
        /\ pc[r] = "done" /\ SentDeleted(r)

\* The calls of POST /container/create in the server file a, in order.
CreateSeq(a) ==
    IF a = "temp.js"
    THEN << <<"pull", FALSE>>, <<"followProgress", FALSE>>,
            <<"createContainer", FALSE>>, <<"start", FALSE>>, <<"inspect", FALSE>> >>
    ELSE << <<"createContainer", FALSE>>, <<"start", FALSE>>, <<"inspect", FALSE>> >>

\* C15: POST /container/create issues its calls in the order (pull,
\* followProgress in temp.js,) createContainer, start, inspect, each at most
\* once and nothing else (no stop, no remove, no retry); a failed call is the
\* last call and is answered with one 500; the inspect data is sent only
\* after all of them succeeded.
C15_CreateSequence ==
    \A r \in Reqs :
        kind[r] = "create" =>
            /\ Len(log[r]) >= 1
            /\ IsPrefix(Sig(log[r]), CreateSeq(app[r]))
            /\ Len(resp[r]) <= 1
            /\ \A i \in 1..Len(log[r]) :
                    log[r][i].res = "err" =>
                        i = Len(log[r]) /\ pc[r] = "done" /\ Sent500(r)
            /\ (resp[r] # <<>> /\ ~SomeFailed(log[r])) =>
                    /\ Sig(log[r]) = CreateSeq(app[r])
                    /\ \A i \in 1..Len(log[r]) : log[r][i].res = "ok"
                    /\ resp[r] = <<Ok200("data")>>

C15_Witness ==
    \E r \in Reqs :
        /\ kind[r] = "create" /\ app[r] = "temp.js"
        /\ pc[r] = "done"
        /\ resp[r] = <<Ok200("data")>>
        /\ Len(log[r]) = 5

\* C16: a deletion that has sent the success message has, unless its first
\* inspect reported removing, issued exactly one remove, as its last call, and
\* that remove succeeded; with removing it has issued no remove.
C16_SuccessMeansRemoved ==
    \A r \in Reqs :
        (kind[r] = "delete" /\ \E i \in 1..Len(resp[r]) : resp[r][i].code = 200) =>
            /\ data[r] # "none"
            /\ IF data[r] = "removing"
               THEN Count(log[r], "remove") = 0
               ELSE /\ Count(log[r], "remove") = 1
                    /\ log[r][Len(log[r])].op = "remove"
                    /\ log[r][Len(log[r])].res = "ok"

C16_Witness ==
    \E r \in Reqs :
        /\ DeletionOf(r, {"created"})
        /\ SentDeleted(r)
        /\ Count(log[r], "remove") = 1

\* ------------------------------------------------------------- termination

\* The engine answers the call a deletion is suspended on, or the timer of
\* its polling loop fires.
DeleteReplies(r) ==
    \/ \E ok \in BOOLEAN, s \in Statuses : DeleteInspected(r, ok, s)
    \/ \E ok \in BOOLEAN : DeleteUnpaused(r, ok)
    \/ \E ok \in BOOLEAN : DeleteStopped(r, ok)
    \/ DeleteTimerFired(r)
    \/ \E ok \in BOOLEAN, s \in Statuses : DeletePolled(r, ok, s)
    \/ \E ok \in BOOLEAN : DeleteRemoved(r, ok)

\* The facade with an engine that answers every call and timers that fire.
SpecLive == Init /\ [][Next]_vars /\ WF_vars(DeleteReplies("r1"))

\* What a deletion may have issued and sent, at any time.
DeletionWithinBudget(r) ==
    kind[r] = "delete" =>
        /\ Len(resp[r]) <= 1
        /\ resp[r] # <<>> => pc[r] = "done"
        /\ Count(log[r], "inspect") <= 1 + MaxRetries
        /\ Count(log[r], "unpause") <= 1
        /\ Count(log[r], "stop") <= 1
        /\ Count(log[r], "remove") <= 1

\* C17: if every engine call returns and every timer fires, every deletion
\* ends having sent exactly one response; it never sends two, and never
\* issues more than 6 inspects, 1 unpause, 1 stop and 1 remove.
C17_DeletionTerminates ==
    /\ [](\A r \in Reqs : DeletionWithinBudget(r))
    /\ \A r \in Reqs :
            (kind[r] = "delete") ~> (pc[r] = "done" /\ Len(resp[r]) = 1)

C17_Witness ==
    \E r \in Reqs :
        /\ kind[r] = "delete"
        /\ pc[r] = "done" /\ Len(resp[r]) = 1
        /\ Count(log[r], "inspect") = 1 + MaxRetries
        /\ Count(log[r], "stop") = 1
        /\ Count(log[r], "remove") = 1

\* ---------------------------------------------------- concurrent deletions

\* The statuses two concurrent deletions may find the container in at first.
ConcStarts ==
    {"running", "paused", "exited", "created", "dead"}

\* The engine's reply to call c with the container in status cs: inspect
\* reports the status of a container that exists; stop is rejected unless it
\* is running, unpause unless it is paused, remove when it is already removed
\* and, without force, when it is running or paused.
EngineReply(c, cs) ==
    CASE c.op = "inspect" ->
            IF cs = "removed" THEN NoAnswer ELSE [ok |-> TRUE, st |-> cs]
      [] c.op = "stop" ->
            [ok |-> cs = "running", st |-> "none"]
      [] c.op = "unpause" ->
            [ok |-> cs = "paused", st |-> "none"]
      [] c.op = "remove" ->
            [ok |-> cs # "removed" /\ (c.force \/ cs \notin {"running", "paused"}),
             st |-> "none"]
      [] OTHER -> NoAnswer

\* The status of the container after the engine executed call c: only an
\* accepted stop, unpause or remove changes it.
EngineAfter(c, cs) ==
    IF ~EngineReply(c, cs).ok THEN cs
    ELSE CASE c.op = "stop" -> "exited"
           [] c.op = "unpause" -> "running"
           [] c.op = "remove" -> "removed"
           [] OTHER -> cs

\* The engine executes, atomically, the call request r is suspended on.
EngineServes(r) ==
    /\ kind[r] = "delete"
    /\ served[r] < Len(log[r])
    /\ log[r][Len(log[r])].op \in EngineOps
    /\ answer' = [answer EXCEPT ![r] = EngineReply(log[r][Len(log[r])], cstatus)]
    /\ cstatus' = EngineAfter(log[r][Len(log[r])], cstatus)
    /\ served' = [served EXCEPT ![r] = Len(log[r])]
    /\ UNCHANGED <<httpVars, runVars>>

\* The engine has executed the call r is suspended on.
Answered(r) ==
    served[r] = Len(log[r])

\* The continuations of the deletion, resumed with the engine's reply.
ConcRequest(r) ==
    \E a \in Apps : DeleteRequest(r, a)

ConcInspected(r) ==
    Answered(r) /\ DeleteInspected(r, answer[r].ok, answer[r].st)

ConcUnpaused(r) ==
    Answered(r) /\ DeleteUnpaused(r, answer[r].ok)

ConcStopped(r) ==
    Answered(r) /\ DeleteStopped(r, answer[r].ok)

ConcRemoved(r) ==
    Answered(r) /\ DeleteRemoved(r, answer[r].ok)

InitConc ==
    /\ kind = [r \in Reqs |-> "none"]
    /\ app = [r \in Reqs |-> "none"]
    /\ bodyOk = [r \in Reqs |-> TRUE]
    /\ pc = [r \in Reqs |-> "idle"]
    /\ log = [r \in Reqs |-> <<>>]
    /\ data = [r \in Reqs |-> "none"]
    /\ status = [r \in Reqs |-> "none"]
    /\ seen = [r \in Reqs |-> <<>>]
    /\ retries = [r \in Reqs |-> 0]
    /\ chunks = [r \in Reqs |-> 0]
    /\ resp = [r \in Reqs |-> <<>>]
    /\ rpc = "idle"
    /\ language = "none"
    /\ container = FALSE
    /\ info = "none"
    /\ output = <<>>
    /\ rlog = <<>>
    /\ completion = NoCompletion
    /\ result = NoCompletion
    /\ cstatus \in ConcStarts
    /\ served = [r \in Reqs |-> 0]
    /\ answer = [r \in Reqs |-> NoAnswer]

\* Two deletions of the same container, their calls interleaved in any
\* order.  The container is never restarting here, so the polling loop and
\* its timer have no step.
NextConc ==
    \E r \in Reqs :
        \/ ConcRequest(r)
        \/ EngineServes(r)
        \/ ConcInspected(r)
        \/ ConcUnpaused(r)
        \/ ConcStopped(r)
        \/ ConcRemoved(r)

SpecConc == InitConc /\ [][NextConc]_vars

\* C18: when two deletions of one container, started with the container
\* running, paused, exited, created or dead, have both finished, the
\* container is removed and at least one of them has sent the success
\* message; neither ever observed restarting.
C18_ConcurrentDeletesRemove ==
    /\ \A r \in Reqs : status[r] # "restarting"
    /\ (\A r \in Reqs : kind[r] = "delete" /\ pc[r] = "done") =>
            /\ cstatus = "removed"
            /\ \E r \in Reqs : SentDeleted(r)

C18_Witness ==
    /\ \A r \in Reqs : kind[r] = "delete" /\ pc[r] = "done"
    /\ data["r1"] = "paused" /\ data["r2"] = "running"
    /\ Sent500("r1") /\ SentDeleted("r2")
    /\ log["r1"][Len(log["r1"])].op = "stop"
    /\ cstatus = "removed"

====
